---- MODULE Spec2Model ----
(***************************************************************************)
(* DOTMNamespace (backend/dotm_namespace.py): the constructor that builds  *)
(* the Redis key prefixes of DOTM, optionally scoped by a history key.     *)
(*                                                                         *)
(* A Python string is a TLA+ string and '+' is \o.  An instance is its     *)
(* attribute dictionary: a function from the names of the attributes       *)
(* assigned so far to their values.  The argument history_key is << >>     *)
(* when it is absent (None) and <<s>> when the string s is supplied.       *)
(* Each caller runs __init__ one statement at a time, so that the          *)
(* statements of several callers interleave.                               *)
(***************************************************************************)
EXTENDS Naturals, Sequences, FiniteSets, TLC

VARIABLES
    pc,       \* pc[c]: the statement caller c's activation of __init__ is at
    key,      \* key[c]: the history_key argument of caller c's activation
    self,     \* self[c]: the instance caller c's activation constructs
    version   \* the class attribute DOTMNamespace.version

vars == <<pc, key, self, version>>

-----------------------------------------------------------------------------
(* Bounds of the model *)

\* A supplied history_key is a concatenation of at most MaxParts parts.
MaxParts == 2

\* The callers that construct namespaces, possibly at the same time.
Callers == {"c1", "c2"}

\* The pieces a supplied history_key is made of: a plain run identifier, the
\* separator, and the base prefix itself.
Parts == {"run42", "::", "dotm"}

RECURSIVE StringsOf(_)
StringsOf(n) ==
    IF n = 0 THEN {""}
    ELSE LET shorter == StringsOf(n - 1)
         IN  shorter \cup {s \o p : s \in shorter, p \in Parts}

\* None
None == << >>

\* The arguments a caller may pass: None, or any string (the empty one too).
HistoryKeys == {None} \cup {<<s>> : s \in StringsOf(MaxParts)}

-----------------------------------------------------------------------------
(* The thirteen attributes and the statements that assign them *)

Fields ==
    {"prefix", "queue", "history", "config", "state", "history_prefix",
     "nodes", "connections", "services", "resolver", "checks",
     "nodes_checks", "services_checks"}

\* The statements of __init__ in program order, named by their source line
\* ("l19" is the whole if/else of lines 19-22).
Order ==
    <<"l10", "l14", "l15", "l16", "l17", "l19",
      "l24", "l25", "l26", "l27", "l29", "l30", "l31">>

IndexOf(line) == CHOOSE i \in 1..Len(Order) : Order[i] = line

\* Where control goes after a statement: the next one, or the return.
After(line) ==
    IF IndexOf(line) = Len(Order) THEN "done" ELSE Order[IndexOf(line) + 1]

\* A freshly allocated instance: no instance attribute yet.
NewObject == << >>

\* self.f = v
SetAttr(o, f, v) ==
    [x \in DOMAIN o \cup {f} |-> IF x = f THEN v ELSE o[x]]

\* Python's truth value of history_key: None and '' are false.
Truthy(k) == k # None /\ k[1] # ""

\* The attributes a statement reads from self (a missing one raises
\* AttributeError).
Reads(line) ==
    CASE line = "l10" -> {}
      [] line \in {"l14", "l15", "l16", "l17", "l19"} -> {"prefix"}
      [] line \in {"l24", "l25", "l26", "l27", "l29"} -> {"history_prefix"}
      [] line \in {"l30", "l31"} -> {"checks"}

SetPrefix(o, k) == SetAttr(o, "prefix", "dotm")

SetQueue(o, k) == SetAttr(o, "queue", o["prefix"] \o "::queue")

SetHistory(o, k) == SetAttr(o, "history", o["prefix"] \o "::history")

SetConfig(o, k) == SetAttr(o, "config", o["prefix"] \o "::config")

\* A slip: state picks up the history scope.
SetStateScoped(o, k) ==
    IF Truthy(k)
    THEN SetAttr(o, "state", k[1] \o "::" \o o["prefix"] \o "::state")
    ELSE SetAttr(o, "state", o["prefix"] \o "::state")

SetState(o, k) == SetAttr(o, "state", o["prefix"] \o "::state")

\* A slip: the scope is put after the prefix.
SetHistoryPrefixSwapped(o, k) ==
    IF Truthy(k)
    THEN SetAttr(o, "history_prefix", o["prefix"] \o "::" \o k[1])
    ELSE SetAttr(o, "history_prefix", o["prefix"])

\* A slip: the else branch is missing.
SetHistoryPrefixNoElse(o, k) ==
    IF Truthy(k)
    THEN SetAttr(o, "history_prefix", k[1] \o "::" \o o["prefix"])
    ELSE o

SetHistoryPrefix(o, k) ==
    IF Truthy(k)
    THEN SetAttr(o, "history_prefix", k[1] \o "::" \o o["prefix"])
    ELSE SetAttr(o, "history_prefix", o["prefix"])

SetNodes(o, k) == SetAttr(o, "nodes", o["history_prefix"] \o "::nodes")

SetConnections(o, k) ==
    SetAttr(o, "connections", o["history_prefix"] \o "::connections")

\* A slip: services is given the name of connections.
SetServicesAsConnections(o, k) ==
    SetAttr(o, "services", o["history_prefix"] \o "::connections")

SetServices(o, k) ==
    SetAttr(o, "services", o["history_prefix"] \o "::services")

\* A slip: resolver is derived from prefix.
SetResolverLive(o, k) == SetAttr(o, "resolver", o["prefix"] \o "::resolver")

SetResolver(o, k) ==
    SetAttr(o, "resolver", o["history_prefix"] \o "::resolver")

\* A slip: checks is derived from prefix.
SetChecksLive(o, k) == SetAttr(o, "checks", o["prefix"] \o "::checks")

SetChecks(o, k) == SetAttr(o, "checks", o["history_prefix"] \o "::checks")

\* A slip: the statement assigns nodes a second time.
SetNodesChecksOverNodes(o, k) == SetAttr(o, "nodes", o["checks"] \o "::nodes")

SetNodesChecks(o, k) == SetAttr(o, "nodes_checks", o["checks"] \o "::nodes")

\* A slip: services_checks is derived from services.
SetServicesChecksOfServices(o, k) ==
    SetAttr(o, "services_checks", o["services"] \o "::checks")

SetServicesChecks(o, k) ==
    SetAttr(o, "services_checks", o["checks"] \o "::services")

\* The effect of one statement on the instance.
Effect(line, o, k) ==
    CASE line = "l10" -> SetPrefix(o, k)
      [] line = "l14" -> SetQueue(o, k)
      [] line = "l15" -> SetHistory(o, k)
      [] line = "l16" -> SetConfig(o, k)
      [] line = "l17" -> SetState(o, k)
      [] line = "l19" -> SetHistoryPrefix(o, k)
      [] line = "l24" -> SetNodes(o, k)
      [] line = "l25" -> SetConnections(o, k)
      [] line = "l26" -> SetServices(o, k)
      [] line = "l27" -> SetResolver(o, k)
      [] line = "l29" -> SetChecks(o, k)
      [] line = "l30" -> SetNodesChecks(o, k)
      [] line = "l31" -> SetServicesChecks(o, k)

-----------------------------------------------------------------------------
(* The state machine *)

\* A slip: history_key is read from a place all callers share.
HistoryKeyShared(c) == key[CHOOSE d \in Callers : TRUE]

\* The history_key a caller's activation reads: its own parameter.
HistoryKey(c) == key[c]

\* A slip: the attributes live in one place all callers share.
StoreShared(s, c, o) == [d \in Callers |-> o]

\* A statement of caller c's activation writes the instance bound to its own
\* self.
Store(s, c, o) == [s EXCEPT ![c] = o]

Init ==
    /\ pc = [c \in Callers |-> "idle"]
    /\ key = [c \in Callers |-> None]
    /\ self = [c \in Callers |-> NewObject]
    /\ version = "0.2.0"

\* DOTMNamespace(k) or DOTMNamespace(): a fresh instance is allocated and
\* __init__ is entered with it.
Call(c, k) ==
    /\ pc[c] \in {"idle", "done", "error"}
    /\ pc' = [pc EXCEPT ![c] = Order[1]]
    /\ key' = [key EXCEPT ![c] = k]
    /\ self' = Store(self, c, NewObject)
    /\ UNCHANGED version

\* Caller c executes the statement at `line`: it raises AttributeError when
\* the statement reads an attribute self does not have, and otherwise assigns
\* and goes on.
Step(c, line) ==
    /\ IF Reads(line) \subseteq DOMAIN self[c]
       THEN /\ self' = Store(self, c, Effect(line, self[c], HistoryKey(c)))
            /\ pc' = [pc EXCEPT ![c] = After(line)]
       ELSE /\ pc' = [pc EXCEPT ![c] = "error"]
            /\ UNCHANGED self
    /\ UNCHANGED <<key, version>>

Line10(c) ==
    /\ pc[c] = "l10"
    /\ Step(c, "l10")

Line14(c) ==
    /\ pc[c] = "l14"
    /\ Step(c, "l14")

Line15(c) ==
    /\ pc[c] = "l15"
    /\ Step(c, "l15")

Line16(c) ==
    /\ pc[c] = "l16"
    /\ Step(c, "l16")

Line17(c) ==
    /\ pc[c] = "l17"
    /\ Step(c, "l17")

Line19(c) ==
    /\ pc[c] = "l19"
    /\ Step(c, "l19")

Line24(c) ==
    /\ pc[c] = "l24"
    /\ Step(c, "l24")

Line25(c) ==
    /\ pc[c] = "l25"
    /\ Step(c, "l25")

Line26(c) ==
    /\ pc[c] = "l26"
    /\ Step(c, "l26")

Line27(c) ==
    /\ pc[c] = "l27"
    /\ Step(c, "l27")

Line29(c) ==
    /\ pc[c] = "l29"
    /\ Step(c, "l29")

Line30(c) ==
    /\ pc[c] = "l30"
    /\ Step(c, "l30")

Line31(c) ==
    /\ pc[c] = "l31"
    /\ Step(c, "l31")


Next ==
    \E c \in Callers :
        \/ \E k \in HistoryKeys : Call(c, k)
        \/ Line10(c)
        \/ Line14(c)
        \/ Line15(c)
        \/ Line16(c)
        \/ Line17(c)
        \/ Line19(c)
        \/ Line24(c)
        \/ Line25(c)
        \/ Line26(c)
        \/ Line27(c)
        \/ Line29(c)
        \/ Line30(c)
        \/ Line31(c)

Spec == Init /\ [][Next]_vars

-----------------------------------------------------------------------------
(* A construction run alone, from the first statement to the return *)

RECURSIVE RunFrom(_, _, _)
RunFrom(i, o, k) ==
    IF i > Len(Order) THEN o
    ELSE RunFrom(i + 1, Effect(Order[i], o, k), k)

Alone(k) == RunFrom(1, NewObject, k)

\* Caller c's construction has returned its instance.
Done(c) == pc[c] = "done"

\* The attributes that never pick up the history scope.
LiveFields == {"queue", "history", "config", "state"}

\* The attributes derived from history_prefix, directly or through checks.
ScopedFields ==
    {"nodes", "connections", "services", "resolver", "checks",
     "nodes_checks", "services_checks"}

-----------------------------------------------------------------------------
(* The claims *)

\* C1 as stated: for every supplied string history_key, the empty string
\* included, history_prefix is history_key + '::' + prefix; with no
\* history_key it is prefix, which is 'dotm'.
C1_AnySuppliedKeyScopes ==
    \A c \in Callers :
        Done(c) =>
            /\ self[c]["prefix"] = "dotm"
            /\ self[c]["history_prefix"] =
                   IF key[c] # None
                   THEN key[c][1] \o "::" \o self[c]["prefix"]
                   ELSE self[c]["prefix"]

\* C1 amended: for every non-empty supplied history_key, history_prefix is
\* history_key + '::' + prefix; with no history_key, and with the empty
\* string, it is prefix, which is 'dotm'.
C1_NonEmptyKeyScopes ==
    \A c \in Callers :
        Done(c) =>
            /\ self[c]["prefix"] = "dotm"
            /\ self[c]["history_prefix"] =
                   IF key[c] # None /\ key[c][1] # ""
                   THEN key[c][1] \o "::" \o "dotm"
                   ELSE "dotm"

C1_Witness ==
    \E c, d \in Callers :
        /\ Done(c) /\ key[c] = <<"::dotm">>
        /\ self[c]["history_prefix"] = "::dotm::dotm"
        /\ Done(d) /\ key[d] = <<"">>
        /\ self[d]["history_prefix"] = "dotm"

\* C2: whatever the history_key, the constructed namespace has queue, history,
\* config and state equal to 'dotm::queue', 'dotm::history', 'dotm::config'
\* and 'dotm::state'.
C2_LiveFieldsUnscoped ==
    \A c \in Callers :
        Done(c) =>
            /\ self[c]["queue"] = "dotm::queue"
            /\ self[c]["history"] = "dotm::history"
            /\ self[c]["config"] = "dotm::config"
            /\ self[c]["state"] = "dotm::state"

C2_Witness ==
    \E c \in Callers :
        /\ Done(c) /\ key[c] = <<"dotm">>
        /\ self[c]["history_prefix"] = "dotm::dotm"
        /\ self[c]["state"] = "dotm::state"

\* C3: nodes, connections, services, resolver and checks are the same
\* instance's history_prefix followed by '::' and their own name; with
\* history_key 'run42', nodes is 'run42::dotm::nodes' and checks is
\* 'run42::dotm::checks'.
C3_ScopedFromHistoryPrefix ==
    \A c \in Callers :
        Done(c) =>
            /\ \A f \in {"nodes", "connections", "services", "resolver",
                         "checks"} :
                   self[c][f] = self[c]["history_prefix"] \o "::" \o f
            /\ key[c] = <<"run42">> =>
                   /\ self[c]["nodes"] = "run42::dotm::nodes"
                   /\ self[c]["checks"] = "run42::dotm::checks"

C3_Witness ==
    \E c \in Callers :
        /\ Done(c) /\ key[c] = <<"run42">>
        /\ self[c]["resolver"] = "run42::dotm::resolver"

\* C4: nodes_checks is the same instance's checks followed by '::nodes', and
\* services_checks is checks followed by '::services'.
C4_ChecksChildren ==
    \A c \in Callers :
        Done(c) =>
            /\ self[c]["nodes_checks"] = self[c]["checks"] \o "::nodes"
            /\ self[c]["services_checks"] = self[c]["checks"] \o "::services"

C4_Witness ==
    \E c \in Callers :
        /\ Done(c) /\ key[c] = <<"run42::">>
        /\ self[c]["nodes_checks"] = "run42::::dotm::checks::nodes"
        /\ self[c]["services_checks"] = "run42::::dotm::checks::services"

\* C5: for a non-empty history_key, none of the history-scoped attributes of
\* the namespace equals any attribute of the namespace constructed with no
\* history_key.
C5_NoCollisionWithLive ==
    \A c, d \in Callers :
        (Done(c) /\ key[c] = None /\ Done(d) /\ Truthy(key[d])) =>
            \A f \in ScopedFields : \A g \in Fields :
                self[d][f] # self[c][g]

C5_Witness ==
    \E c, d \in Callers :
        /\ Done(c) /\ key[c] = None
        /\ Done(d) /\ key[d] = <<"dotm::">>
        /\ self[c]["checks"] = "dotm::checks"
        /\ self[d]["checks"] = "dotm::::dotm::checks"

\* C6: two constructions with the same history_key yield the same thirteen
\* attribute values, whatever was constructed in between.
C6_Deterministic ==
    \A c, d \in Callers :
        (Done(c) /\ Done(d) /\ key[c] = key[d]) =>
            /\ DOMAIN self[c] = Fields
            /\ self[c] = self[d]

C6_Witness ==
    \E c, d \in Callers :
        /\ c # d
        /\ Done(c) /\ Done(d)
        /\ key[c] = <<"::">> /\ key[d] = <<"::">>
        /\ self[c]["nodes"] = "::::dotm::nodes"

\* C7: for an absent history_key and for every string, the constructor
\* raises nothing, and the instance it returns has all thirteen attributes,
\* each holding a string.
C7_Total ==
    \A c \in Callers :
        /\ pc[c] # "error"
        /\ pc[c] \notin {"idle", "done"} => Reads(pc[c]) \subseteq DOMAIN self[c]
        /\ Done(c) =>
               /\ DOMAIN self[c] = Fields
               /\ \A f \in Fields : self[c][f] \in STRING

C7_Witness ==
    \E c, d \in Callers :
        /\ Done(c) /\ key[c] = None
        /\ Done(d) /\ key[d] = <<"">>
        /\ DOMAIN self[c] = Fields /\ DOMAIN self[d] = Fields

\* Caller c's step enters a new construction, which rebinds self[c] to a
\* fresh instance.
Enters(c) == pc[c] \in {"idle", "done", "error"} /\ pc'[c] = Order[1]

\* C8: a step never changes an attribute that is already assigned (each
\* statement adds one attribute that was not there), a returned instance
\* does not change at all, and nothing outside the instances changes.
C8_NoFieldMutated ==
    [][/\ version' = version
       /\ \A c \in Callers :
              IF Enters(c)
              THEN self'[c] = NewObject
              ELSE /\ \A f \in DOMAIN self[c] :
                          f \in DOMAIN self'[c] /\ self'[c][f] = self[c][f]
                   /\ Cardinality(DOMAIN self'[c])
                          <= Cardinality(DOMAIN self[c]) + 1
                   /\ pc'[c] # pc[c] =>
                          Cardinality(DOMAIN self'[c])
                              = Cardinality(DOMAIN self[c]) + 1
                   /\ Done(c) => self'[c] = self[c]]_vars

C8_Witness ==
    \E c, d \in Callers :
        /\ Done(c) /\ key[c] = <<"run42dotm">>
        /\ pc[d] = "l31" /\ key[d] = <<"dotmrun42">>
        /\ DOMAIN self[d] = Fields \ {"services_checks"}

\* C9: under every interleaving of the statements of the callers, each
\* returned instance has the attribute values a construction run alone with
\* the same history_key produces.
C9_AsIfAlone ==
    \A c \in Callers :
        Done(c) => self[c] = Alone(key[c])

C9_Witness ==
    \E c, d \in Callers :
        /\ pc[c] = "l30" /\ key[c] = <<"run42">>
        /\ pc[d] = "l24" /\ key[d] = None
        /\ self[c]["checks"] = "run42::dotm::checks"
        /\ self[d]["history_prefix"] = "dotm"

\* C10: two different non-empty history_keys give namespaces that differ in
\* history_prefix and in every history-scoped attribute and agree on prefix,
\* queue, history, config and state; and within one namespace the eleven
\* attributes other than prefix and history_prefix are pairwise different.
C10_DistinctScopes ==
    /\ \A c, d \in Callers :
           (Done(c) /\ Done(d) /\ Truthy(key[c]) /\ Truthy(key[d])
                /\ key[c] # key[d]) =>
               /\ self[c]["history_prefix"] # self[d]["history_prefix"]
               /\ \A f \in ScopedFields : self[c][f] # self[d][f]
               /\ \A f \in LiveFields \cup {"prefix"} : self[c][f] = self[d][f]
    /\ \A c \in Callers :
           Done(c) =>
               \A f, g \in LiveFields \cup ScopedFields :
                   f # g => self[c][f] # self[c][g]

C10_Witness ==
    \E c, d \in Callers :
        /\ Done(c) /\ key[c] = <<"run42">>
        /\ Done(d) /\ key[d] = <<"::run42">>
        /\ self[c]["nodes"] = "run42::dotm::nodes"
        /\ self[d]["nodes"] = "::run42::dotm::nodes"

====
